---- MODULE Spec2Model ----
(***************************************************************************)
(* State-machine model of the bcm283x-linux-gpio register layer:           *)
(* the mapped control block (lib.rs, Rpio), the atomic configuration batch *)
(* (write.rs, GpioConfig), the pull up/down batch (write.rs,               *)
(* GpioPullConfig) and the snapshot decoders (read.rs, GpioState).         *)
(*                                                                         *)
(* A 32-bit register value is the set of its set bit positions (a subset   *)
(* of 0..31): x | y is union, x & y is intersection, !x is the complement  *)
(* in 0..31 and a shift moves the positions and drops what leaves 0..31.   *)
(***************************************************************************)
EXTENDS Integers, Sequences, FiniteSets, TLC

\* ------------------------------------------------------------ bounds

\* Number of set_* calls the client makes while it builds the two batches.
MaxCalls == 1

\* Number of writes the external actor (kernel, other process) makes.
MaxExt == 1

\* ------------------------------------------------------------ u32 values

AllOnes == 0..31

\* The bits of a literal n < 2^31.
Bits(n) == {i \in 0..30 : (n \div (2^i)) % 2 = 1}

Shl(x, k) == {i + k : i \in x} \cap AllOnes

Shr(x, k) == {i - k : i \in {j \in x : j >= k}}

Not(x) == AllOnes \ x

\* `as u8` followed by a use as a number: the low eight bits.
AsU8(x) ==
  LET f[i \in 0..8] == IF i = 8 THEN 0
                       ELSE (IF i \in x THEN 2^i ELSE 0) + f[i + 1]
  IN  f[0]

\* ------------------------------------------------------------ register map

GPFSEL0 == 0
GPFSEL1 == 4
GPFSEL2 == 8
GPFSEL3 == 12
GPFSEL4 == 16
GPFSEL5 == 20
GPSET0 == 28
GPSET1 == 32
GPCLR0 == 40
GPCLR1 == 44
GPLEV0 == 52
GPLEV1 == 56
GPEDS0 == 64
GPEDS1 == 68
GPREN0 == 76
GPREN1 == 80
GPFEN0 == 88
GPFEN1 == 92
GPHEN0 == 100
GPHEN1 == 104
GPLEN0 == 112
GPLEN1 == 116
GPAREN0 == 124
GPAREN1 == 128
GPAFEN0 == 136
GPAFEN1 == 140
GPPUD == 148
GPPUDCLK0 == 152
GPPUDCLK1 == 156

\* Register::fsel .. Register::afen: the register of an index; the panic of
\* the last match arm is the result -1.
fsel(index) ==
  CASE index = 0 -> GPFSEL0 [] index = 1 -> GPFSEL1 [] index = 2 -> GPFSEL2
    [] index = 3 -> GPFSEL3 [] index = 4 -> GPFSEL4 [] index = 5 -> GPFSEL5
    [] OTHER -> -1

set(index) == CASE index = 0 -> GPSET0 [] index = 1 -> GPSET1 [] OTHER -> -1

clr(index) == CASE index = 0 -> GPCLR0 [] index = 1 -> GPCLR1 [] OTHER -> -1

lev(index) == CASE index = 0 -> GPLEV0 [] index = 1 -> GPLEV1 [] OTHER -> -1

ren(index) == CASE index = 0 -> GPREN0 [] index = 1 -> GPREN1 [] OTHER -> -1

fen(index) == CASE index = 0 -> GPFEN0 [] index = 1 -> GPFEN1 [] OTHER -> -1

hen(index) == CASE index = 0 -> GPHEN0 [] index = 1 -> GPHEN1 [] OTHER -> -1

len(index) == CASE index = 0 -> GPLEN0 [] index = 1 -> GPLEN1 [] OTHER -> -1

aren(index) == CASE index = 0 -> GPAREN0 [] index = 1 -> GPAREN1 [] OTHER -> -1

afen(index) == CASE index = 0 -> GPAFEN0 [] index = 1 -> GPAFEN1 [] OTHER -> -1

\* The six detect families in the order GpioConfig::apply walks them.
DetectFields ==
  <<"detect_rise", "detect_fall", "detect_high", "detect_low",
    "detect_async_rise", "detect_async_fall">>

\* The register constructor apply hands to apply_registers for a family.
DetectRegister(field, i) ==
  CASE field = "detect_rise" -> ren(i)
    [] field = "detect_fall" -> fen(i)
    [] field = "detect_high" -> hen(i)
    [] field = "detect_low" -> len(i)
    [] field = "detect_async_rise" -> aren(i)
    [] field = "detect_async_fall" -> afen(i)

\* The words of the mapped window the model keeps: every word up to GPPUDCLK1.
RegAddrs == {4 * w : w \in 0..(GPPUDCLK1 \div 4)}

\* ------------------------------------------------------------ enumerations

\* Option<T>: None is the empty tuple and Some(v) the one-element tuple.
None == <<>>

Some(v) == <<v>>

PinFunction == {"Input", "Output", "Alt0", "Alt1", "Alt2", "Alt3", "Alt4", "Alt5"}

PullMode == {"Float", "PullDown", "PullUp"}

\* try_from_bits that falls back to Input instead of failing.
try_from_bits_default(bits) ==
  CASE bits = 0 -> "Input"
    [] bits = 1 -> "Output"
    [] bits = 4 -> "Alt0"
    [] bits = 5 -> "Alt1"
    [] bits = 6 -> "Alt2"
    [] bits = 7 -> "Alt3"
    [] bits = 3 -> "Alt4"
    [] bits = 2 -> "Alt5"
    [] OTHER -> "Input"

\* PinFunction::try_from_bits: "Err" stands for Err(()).
try_from_bits(bits) ==
  CASE bits = 0 -> "Input"
    [] bits = 1 -> "Output"
    [] bits = 4 -> "Alt0"
    [] bits = 5 -> "Alt1"
    [] bits = 6 -> "Alt2"
    [] bits = 7 -> "Alt3"
    [] bits = 3 -> "Alt4"
    [] bits = 2 -> "Alt5"
    [] OTHER -> "Err"

\* to_bits with the codes of Alt4 and Alt5 exchanged.
to_bits_alt45(f) ==
  CASE f = "Input" -> 0
    [] f = "Output" -> 1
    [] f = "Alt0" -> 4
    [] f = "Alt1" -> 5
    [] f = "Alt2" -> 6
    [] f = "Alt3" -> 7
    [] f = "Alt4" -> 2
    [] f = "Alt5" -> 3

to_bits(f) ==
  CASE f = "Input" -> 0
    [] f = "Output" -> 1
    [] f = "Alt0" -> 4
    [] f = "Alt1" -> 5
    [] f = "Alt2" -> 6
    [] f = "Alt3" -> 7
    [] f = "Alt4" -> 3
    [] f = "Alt5" -> 2

\* The length of the batch arrays: [Option<_>; 54].
ArrayLen == 54

\* The indices of a batch array.
Pins == 0..(ArrayLen - 1)


\* ------------------------------------------------------------ batches

\* A batch array [Option<T>; 54] is kept as the map of its Some entries:
\* [None; 54] is the empty map.
NoneArray == <<>>

\* array[index] for an index inside the array.
At(array, index) == IF index \in DOMAIN array THEN Some(array[index]) ELSE None

\* array[index] = Some(value) for an index inside the array.
Store(array, index, value) ==
  [i \in (DOMAIN array) \cup {index} |-> IF i = index THEN value ELSE array[i]]

\* GpioConfig::new
GpioConfig_new ==
  [function |-> NoneArray, level |-> NoneArray,
   detect_rise |-> NoneArray, detect_fall |-> NoneArray,
   detect_high |-> NoneArray, detect_low |-> NoneArray,
   detect_async_fall |-> NoneArray, detect_async_rise |-> NoneArray]

\* GpioPullConfig::new
GpioPullConfig_new == NoneArray

\* One operation on the handle: and_register, or_register or write_register
\* on reg with the operand val.
Op(kind, reg, val) == [op |-> kind, reg |-> reg, val |-> val]

\* wait_cycles(150): no register is touched.
WaitOp == [op |-> "wait", reg |-> None, val |-> {}]

\* mask[reg] that covers the whole register once a pin of it is pending.
fsel_mask_whole_register(function, reg) ==
  IF \E p \in Pins : At(function, p) # None /\ p \div 10 = reg
  THEN AllOnes
  ELSE {}

\* apply_functions, first loop: mask[reg] after all pins are visited.
fsel_mask(function, reg) ==
  UNION {Shl(Bits(7), (pin % 10) * 3) :
           pin \in {p \in Pins : At(function, p) # None /\ p \div 10 = reg}}

\* apply_functions, first loop: value[reg] after all pins are visited.
fsel_value(function, reg) ==
  UNION {Shl(Bits(to_bits(function[pin])), (pin % 10) * 3) :
           pin \in {p \in Pins : At(function, p) # None /\ p \div 10 = reg}}

\* apply_functions with the OR issued before the AND.
apply_functions_or_first(function) ==
  [k \in 1..12 |->
     LET i == (k - 1) \div 2
     IN  IF k % 2 = 0
         THEN Op("and", fsel(i), Not(fsel_mask(function, i)))
         ELSE Op("or", fsel(i), fsel_value(function, i))]

\* apply_functions, second loop: for i in 0..6, one AND then one OR.
apply_functions(function) ==
  [k \in 1..12 |->
     LET i == (k - 1) \div 2
     IN  IF k % 2 = 1
         THEN Op("and", fsel(i), Not(fsel_mask(function, i)))
         ELSE Op("or", fsel(i), fsel_value(function, i))]

\* apply_registers, first loop: out_l[reg_i], the bits with a pending value.
out_l(values, reg_i) ==
  {pin % 32 : pin \in {p \in Pins : At(values, p) # None /\ p \div 32 = reg_i}}

\* apply_registers, first loop: out_h[reg_i], the bits with pending value true.
out_h(values, reg_i) ==
  {pin % 32 : pin \in {p \in Pins : At(values, p) = Some(TRUE) /\ p \div 32 = reg_i}}

\* apply_registers with the complement of the AND operand forgotten.
apply_registers_no_complement(field, values) ==
  [k \in 1..4 |->
     LET i == (k - 1) \div 2
     IN  IF k % 2 = 1
         THEN Op("and", DetectRegister(field, i), out_l(values, i))
         ELSE Op("or", DetectRegister(field, i), out_h(values, i))]

\* apply_registers, second loop: for i in 0..2, one AND then one OR.
apply_registers(field, values) ==
  [k \in 1..4 |->
     LET i == (k - 1) \div 2
     IN  IF k % 2 = 1
         THEN Op("and", DetectRegister(field, i), Not(out_l(values, i)))
         ELSE Op("or", DetectRegister(field, i), out_h(values, i))]

\* GpioConfig::apply: the operations it issues, in order.
GpioConfig_apply(c) ==
  apply_functions(c.function)
    \o apply_registers("detect_rise", c.detect_rise)
    \o apply_registers("detect_fall", c.detect_fall)
    \o apply_registers("detect_high", c.detect_high)
    \o apply_registers("detect_low", c.detect_low)
    \o apply_registers("detect_async_rise", c.detect_async_rise)
    \o apply_registers("detect_async_fall", c.detect_async_fall)

\* The partition loop with every pending pin put in every mode's mask.
pull_clk_any_mode(pull_mode, mode) ==
  [bank \in 0..1 |->
     {i % 32 : i \in {p \in Pins : At(pull_mode, p) # None /\ p \div 32 = bank}}]

\* GpioPullConfig::apply, the partition loop: the clock mask of one mode,
\* as the array indexed by bank.
pull_clk(pull_mode, mode) ==
  [bank \in 0..1 |->
     {i % 32 : i \in {p \in Pins : At(pull_mode, p) = Some(mode) /\ p \div 32 = bank}}]

\* apply_pull_mode with the clocks raised before the mode is written.
apply_pull_mode_clock_first(mode, pins) ==
  IF pins[0] = {} /\ pins[1] = {}
  THEN <<>>
  ELSE <<Op("write", GPPUDCLK0, {}),
         Op("write", GPPUDCLK1, {}),
         Op("write", GPPUDCLK0, pins[0]),
         WaitOp,
         Op("write", GPPUDCLK1, pins[1]),
         Op("write", GPPUD, Bits(mode)),
         WaitOp,
         Op("write", GPPUDCLK0, {}),
         Op("write", GPPUDCLK1, {}),
         Op("write", GPPUD, {})>>

\* GpioPullConfig::apply_pull_mode: nothing for an empty mask, else the strobe.
apply_pull_mode(mode, pins) ==
  IF pins[0] = {} /\ pins[1] = {}
  THEN <<>>
  ELSE <<Op("write", GPPUDCLK0, {}),
         Op("write", GPPUDCLK1, {}),
         Op("write", GPPUD, Bits(mode)),
         WaitOp,
         Op("write", GPPUDCLK0, pins[0]),
         Op("write", GPPUDCLK1, pins[1]),
         WaitOp,
         Op("write", GPPUDCLK0, {}),
         Op("write", GPPUDCLK1, {}),
         Op("write", GPPUD, {})>>

\* GpioPullConfig::apply with the codes of PullUp and PullDown exchanged.
GpioPullConfig_apply_codes_swapped(pull_mode) ==
  apply_pull_mode(0, pull_clk(pull_mode, "Float"))
    \o apply_pull_mode(1, pull_clk(pull_mode, "PullUp"))
    \o apply_pull_mode(2, pull_clk(pull_mode, "PullDown"))

\* GpioPullConfig::apply: Float with 0b00, PullUp with 0b10, PullDown with 0b01.
GpioPullConfig_apply(pull_mode) ==
  apply_pull_mode(0, pull_clk(pull_mode, "Float"))
    \o apply_pull_mode(2, pull_clk(pull_mode, "PullUp"))
    \o apply_pull_mode(1, pull_clk(pull_mode, "PullDown"))

\* ------------------------------------------------------------ handle

\* and_register as a plain assignment of the operand.
and_register_assign(loaded, value) == value

\* Rpio::and_register: *reg &= value, on the value loaded before.
and_register(loaded, value) == loaded \cap value

\* Rpio::or_register: *reg |= value, on the value loaded before.
or_register(loaded, value) == loaded \cup value

\* assert_pin_index
assert_pin_index(index) == index <= 53

\* ------------------------------------------------------------ snapshot

\* Rpio::read_all / GpioState::from_data: the words of the window by index.
read_all(r) == [w \in 0..(GPPUDCLK1 \div 4) |-> r[4 * w]]

\* read_pin_bits that shifts by the pin index instead of the index inside the
\* register.
read_pin_bits_unreduced(data, index, base, pins_per_register, bits_per_pin) ==
  LET register_index == (base \div 4) + (index \div pins_per_register)
      value == Shr(data[register_index], bits_per_pin * index)
      mask == Not(Shl(AllOnes, bits_per_pin))
  IN  value \cap mask

\* GpioState::read_pin_bits (after assert_pin_index).
read_pin_bits(data, index, base, pins_per_register, bits_per_pin) ==
  LET register_index == (base \div 4) + (index \div pins_per_register)
      idx == index % pins_per_register
      value == Shr(data[register_index], bits_per_pin * idx)
      mask == Not(Shl(AllOnes, bits_per_pin))
  IN  value \cap mask

pin_function(data, index) ==
  try_from_bits(AsU8(read_pin_bits(data, index, GPFSEL0, 10, 3)))

pin_level(data, index) == read_pin_bits(data, index, GPLEV0, 32, 1) # {}

pin_event(data, index) == read_pin_bits(data, index, GPEDS0, 32, 1) # {}

pin_detect_rise(data, index) == read_pin_bits(data, index, GPREN0, 32, 1) # {}

pin_detect_fall(data, index) == read_pin_bits(data, index, GPFEN0, 32, 1) # {}

pin_detect_high(data, index) == read_pin_bits(data, index, GPHEN0, 32, 1) # {}

pin_detect_low(data, index) == read_pin_bits(data, index, GPLEN0, 32, 1) # {}

pin_detect_async_rise(data, index) == read_pin_bits(data, index, GPAREN0, 32, 1) # {}

pin_detect_async_fall(data, index) == read_pin_bits(data, index, GPAFEN0, 32, 1) # {}

\* GpioState::pin
pin(data, index) ==
  [function |-> pin_function(data, index),
   level |-> pin_level(data, index),
   event |-> pin_event(data, index),
   detect_rise |-> pin_detect_rise(data, index),
   detect_fall |-> pin_detect_fall(data, index),
   detect_high |-> pin_detect_high(data, index),
   detect_low |-> pin_detect_low(data, index),
   detect_async_rise |-> pin_detect_async_rise(data, index),
   detect_async_fall |-> pin_detect_async_fall(data, index)]


\* ------------------------------------------------------------ inputs

\* The pin indices the client passes to each family of calls; 53 is the last
\* index of the batch arrays and 54 the first one outside.
FunctionPins == {9, 53, 54}

LevelPins == {53, 54}

DetectPins == {0, 53, 54}

\* The indices passed to the five detect setters other than set_detect_rise.
OtherDetectPins == {53, 54}

PullPins == {53, 54}

\* The indices of the direct calls on the handle and of the decoders.
QueryPins == {5, 53, 54, 64}

\* The functions the client requests.
FunctionInputs == {"Input", "Output", "Alt5"}

\* The batches the client holds before the modelled calls; each is what
\* GpioConfig::new / GpioPullConfig::new and a few set_* calls build.
InitBatches ==
  { [cfg |-> GpioConfig_new, pud |-> GpioPullConfig_new],
    [cfg |-> [GpioConfig_new EXCEPT
                !.detect_rise = Store(Store(@, 0, TRUE), 33, TRUE)],
     pud |-> GpioPullConfig_new],
    [cfg |-> [GpioConfig_new EXCEPT !.function = Store(@, 5, "Output")],
     pud |-> Store(Store(GpioPullConfig_new, 2, "PullUp"), 40, "PullDown")],
    [cfg |-> [GpioConfig_new EXCEPT
                !.function = Store(Store(@, 5, "Alt3"), 8, "Input"),
                !.level = Store(Store(@, 5, TRUE), 33, FALSE),
                !.detect_fall = Store(Store(@, 33, FALSE), 40, TRUE)],
     pud |-> Store(Store(GpioPullConfig_new, 2, "Float"), 3, "PullUp")] }

\* Bits no pin of the inputs above owns, which the external actor changes
\* during GpioConfig::apply: one bit of the field of pin 7 in GPFSEL0, the bit
\* of pin 7 in GPREN0 and the bit of pin 39 in GPAFEN1.
ExtTargets == {<<GPFSEL0, 21>>, <<GPREN0, 7>>, <<GPAFEN1, 7>>}

\* What the external actor writes to the pull registers.
ExtPullWrites == {<<GPPUD, Bits(1)>>, <<GPPUD, Bits(2)>>, <<GPPUDCLK0, Bits(4)>>}

\* The contents of the window when the handle is created.
InitWords == {{}, AllOnes, {i \in AllOnes : i % 2 = 0}}

\* ------------------------------------------------------------ state

VARIABLES
  regs,      \* the mapped control block: byte offset -> u32
  cfg,       \* the GpioConfig batch
  pud,       \* the GpioPullConfig batch (its pull_mode array)
  pc,        \* where the client is
  prog,      \* the operations of the running apply, in order
  ip,        \* index in prog of the next operation
  half,      \* "load" or "store": the half of a read-modify-write to do next
  tmp,       \* the value loaded by the first half
  log,       \* the operations and waits issued by the running apply
  regs0,     \* the control block when the running apply began
  calls,     \* number of set_* calls made
  lastCall,  \* the last call that took a pin index: <<name, index>>
  snap,      \* the snapshot read by read_all
  ret,       \* the result of the last query
  extLeft,   \* writes the external actor may still make
  extMods,   \* the external actor's bit changes: <<register, bit, value>>
  extPull,   \* the external actor wrote a pull register
  cli        \* the invocation of the rpi-gpio tool, None for a library client

vars ==
  <<regs, cfg, pud, pc, prog, ip, half, tmp, log, regs0, calls, lastCall,
    snap, ret, extLeft, extMods, extPull, cli>>

\* The pull registers rest at 0: apply_pull_mode leaves them cleared.
Init ==
  /\ \E w \in InitWords :
       regs = [a \in RegAddrs |->
                 IF a \in {GPPUD, GPPUDCLK0, GPPUDCLK1} THEN {} ELSE w]
  /\ \E b \in InitBatches : cfg = b.cfg /\ pud = b.pud
  /\ pc = "build"
  /\ prog = <<>>
  /\ ip = 1
  /\ half = "load"
  /\ tmp = {}
  /\ log = <<>>
  /\ regs0 = regs
  /\ calls = 0
  /\ lastCall = None
  /\ snap = None
  /\ ret = None
  /\ extLeft = MaxExt
  /\ extMods = {}
  /\ extPull = FALSE
  /\ cli = None


\* ------------------------------------------------------------ building

\* self.<field>[pin] = Some(value): an index outside the array panics
\* (the bounds check of the indexing) and nothing is assigned.
SetField(field, index, value) ==
  /\ pc = "build"
  /\ calls < MaxCalls
  /\ calls' = calls + 1
  /\ lastCall' = Some(<<field, index>>)
  /\ IF index \in Pins
     THEN /\ cfg' = [cfg EXCEPT ![field] = Store(@, index, value)]
          /\ pc' = pc
     ELSE /\ cfg' = cfg
          /\ pc' = "panicked"
  /\ UNCHANGED <<cli, regs, pud, prog, ip, half, tmp, log, regs0, snap, ret,
                 extLeft, extMods, extPull>>

set_function ==
  \E index \in FunctionPins, mode \in FunctionInputs :
    SetField("function", index, mode)

set_level ==
  \E index \in LevelPins, level \in BOOLEAN : SetField("level", index, level)

set_detect_rise ==
  \E index \in DetectPins, detect \in BOOLEAN :
    SetField("detect_rise", index, detect)

set_detect_fall ==
  \E index \in OtherDetectPins, detect \in BOOLEAN :
    SetField("detect_fall", index, detect)

set_detect_high ==
  \E index \in OtherDetectPins, detect \in BOOLEAN :
    SetField("detect_high", index, detect)

set_detect_low ==
  \E index \in OtherDetectPins, detect \in BOOLEAN :
    SetField("detect_low", index, detect)

set_detect_async_rise ==
  \E index \in OtherDetectPins, detect \in BOOLEAN :
    SetField("detect_async_rise", index, detect)

set_detect_async_fall ==
  \E index \in OtherDetectPins, detect \in BOOLEAN :
    SetField("detect_async_fall", index, detect)

set_pull_mode ==
  \E index \in PullPins, mode \in PullMode :
    /\ pc = "build"
    /\ calls < MaxCalls
    /\ calls' = calls + 1
    /\ lastCall' = Some(<<"pull_mode", index>>)
    /\ IF index \in Pins
       THEN /\ pud' = Store(pud, index, mode)
            /\ pc' = pc
       ELSE /\ pud' = pud
            /\ pc' = "panicked"
    /\ UNCHANGED <<cli, regs, cfg, prog, ip, half, tmp, log, regs0, snap, ret,
                   extLeft, extMods, extPull>>

\* ------------------------------------------------------------ applying

\* gpio_config.apply(&mut gpio) is entered.
CallConfigApply ==
  /\ pc = "build"
  /\ pc' = "cfg"
  /\ prog' = GpioConfig_apply(cfg)
  /\ ip' = 1
  /\ log' = <<>>
  /\ regs0' = regs
  /\ lastCall' = None
  /\ UNCHANGED <<cli, regs, cfg, pud, half, tmp, calls, snap, ret, extLeft,
                 extMods, extPull>>

\* pud_config.apply(&mut gpio) is entered.
CallPullApply ==
  /\ pc = "cfg_done"
  /\ pc' = "pull"
  /\ prog' = GpioPullConfig_apply(pud)
  /\ ip' = 1
  /\ log' = <<>>
  /\ regs0' = regs
  /\ UNCHANGED <<cli, regs, cfg, pud, half, tmp, calls, lastCall, snap, ret,
                 extLeft, extMods, extPull>>

Running == pc \in {"cfg", "pull"} /\ ip <= Len(prog)

\* First half of `*reg &= value` / `*reg |= value`: the load.
RegisterLoad ==
  /\ Running
  /\ prog[ip].op \in {"and", "or"}
  /\ half = "load"
  /\ tmp' = regs[prog[ip].reg]
  /\ half' = "store"
  /\ log' = Append(log, prog[ip])
  /\ UNCHANGED <<cli, regs, cfg, pud, pc, prog, ip, regs0, calls, lastCall,
                 snap, ret, extLeft, extMods, extPull>>

\* Second half: the store of the combined value.
RegisterStore ==
  /\ Running
  /\ prog[ip].op \in {"and", "or"}
  /\ half = "store"
  /\ regs' = [regs EXCEPT ![prog[ip].reg] =
                IF prog[ip].op = "and"
                THEN and_register(tmp, prog[ip].val)
                ELSE or_register(tmp, prog[ip].val)]
  /\ half' = "load"
  /\ tmp' = {}
  /\ ip' = ip + 1
  /\ UNCHANGED <<cli, cfg, pud, pc, prog, log, regs0, calls, lastCall, snap,
                 ret, extLeft, extMods, extPull>>

\* Rpio::write_register inside an apply: one volatile store.
write_register ==
  /\ Running
  /\ prog[ip].op = "write"
  /\ regs' = [regs EXCEPT ![prog[ip].reg] = prog[ip].val]
  /\ log' = Append(log, prog[ip])
  /\ ip' = ip + 1
  /\ UNCHANGED <<cli, cfg, pud, pc, prog, half, tmp, regs0, calls, lastCall,
                 snap,
                 ret, extLeft, extMods, extPull>>

\* wait_cycles(150)
wait_cycles ==
  /\ Running
  /\ prog[ip].op = "wait"
  /\ log' = Append(log, prog[ip])
  /\ ip' = ip + 1
  /\ UNCHANGED <<cli, regs, cfg, pud, pc, prog, half, tmp, regs0, calls,
                 lastCall, snap, ret, extLeft, extMods, extPull>>

\* The running apply returns.
ApplyReturn ==
  /\ pc \in {"cfg", "pull"}
  /\ ip > Len(prog)
  /\ pc' = IF pc = "cfg" THEN "cfg_done" ELSE "pull_done"
  /\ UNCHANGED <<cli, regs, cfg, pud, prog, ip, half, tmp, log, regs0, calls,
                 lastCall, snap, ret, extLeft, extMods, extPull>>

\* ------------------------------------------------------------ reading

\* gpio.read_all()
ReadAll ==
  /\ pc = "pull_done"
  /\ pc' = "read"
  /\ snap' = read_all(regs)
  /\ UNCHANGED <<cli, regs, cfg, pud, prog, ip, half, tmp, log, regs0, calls,
                 lastCall, ret, extLeft, extMods, extPull>>

\* GpioState::pin(index) on the snapshot: every decoder asserts the index.
DecodePin ==
  \E index \in QueryPins :
    /\ pc = "read"
    /\ lastCall' = Some(<<"pin", index>>)
    /\ IF assert_pin_index(index)
       THEN /\ ret' = Some(pin(snap, index))
            /\ pc' = "done"
       ELSE /\ ret' = ret
            /\ pc' = "panicked"
    /\ UNCHANGED <<cli, regs, cfg, pud, prog, ip, half, tmp, log, regs0, calls,
                   snap, extLeft, extMods, extPull>>

\* Rpio::read_level(index)
read_level ==
  \E index \in QueryPins :
    /\ pc = "read"
    /\ lastCall' = Some(<<"read_level", index>>)
    /\ IF assert_pin_index(index)
       THEN /\ ret' = Some(Shr(regs[lev(index \div 32)], index % 32)
                             \cap Bits(1) = Bits(1))
            /\ pc' = "done"
       ELSE /\ ret' = ret
            /\ pc' = "panicked"
    /\ UNCHANGED <<cli, regs, cfg, pud, prog, ip, half, tmp, log, regs0, calls,
                   snap, extLeft, extMods, extPull>>

\* Rpio::set_level(index, value): no assert_pin_index; the only check is the
\* bank match of Register::set / Register::clr.
Rpio_set_level ==
  \E index \in QueryPins, value \in BOOLEAN :
    LET bits == Shl(Bits(1), index % 32)
        register == IF value THEN set(index \div 32) ELSE clr(index \div 32)
    IN  /\ pc = "read"
        /\ lastCall' = Some(<<"Rpio::set_level", index>>)
        /\ IF register < 0
           THEN /\ pc' = "panicked"
                /\ UNCHANGED <<regs, log>>
           ELSE /\ pc' = "done"
                /\ regs' = [regs EXCEPT ![register] = bits]
                /\ log' = Append(log, Op("write", register, bits))
        /\ UNCHANGED <<cli, cfg, pud, prog, ip, half, tmp, regs0, calls, snap,
                       ret, extLeft, extMods, extPull>>

\* ------------------------------------------------------------ other actors

\* The kernel or another process flips, in one atomic step, a bit that the
\* batch does not own, while GpioConfig::apply runs.
ExtModify ==
  \E t \in ExtTargets :
    /\ pc = "cfg"
    /\ extLeft > 0
    /\ extLeft' = extLeft - 1
    /\ regs' = [regs EXCEPT ![t[1]] =
                  IF t[2] \in @ THEN @ \ {t[2]} ELSE @ \cup {t[2]}]
    /\ extMods' = {m \in extMods : <<m[1], m[2]>> # t}
                    \cup {<<t[1], t[2], t[2] \notin regs[t[1]]>>}
    /\ UNCHANGED <<cli, cfg, pud, pc, prog, ip, half, tmp, log, regs0, calls,
                   lastCall, snap, ret, extPull>>

\* The kernel or another process writes a pull register while
\* GpioPullConfig::apply runs.
ExtWritePull ==
  \E t \in ExtPullWrites :
    /\ pc = "pull"
    /\ extLeft > 0
    /\ extLeft' = extLeft - 1
    /\ regs' = [regs EXCEPT ![t[1]] = t[2]]
    /\ extPull' = TRUE
    /\ UNCHANGED <<cli, cfg, pud, pc, prog, ip, half, tmp, log, regs0, calls,
                   lastCall, snap, ret, extMods>>

\* ------------------------------------------------------------ specifications

\* The program alone.
NextQuiet ==
  \/ set_function
  \/ set_level
  \/ set_detect_rise
  \/ set_detect_fall
  \/ set_detect_high
  \/ set_detect_low
  \/ set_detect_async_rise
  \/ set_detect_async_fall
  \/ set_pull_mode
  \/ CallConfigApply
  \/ CallPullApply
  \/ RegisterLoad
  \/ RegisterStore
  \/ write_register
  \/ wait_cycles
  \/ ApplyReturn
  \/ ReadAll
  \/ DecodePin
  \/ read_level
  \/ Rpio_set_level

SpecQuiet == Init /\ [][NextQuiet]_vars

\* The program and an external actor on the pull registers.
NextPullRace ==
  \/ NextQuiet
  \/ ExtWritePull

SpecPullRace == Init /\ [][NextPullRace]_vars

\* The program and the external actors.
Next ==
  \/ NextQuiet
  \/ ExtModify
  \/ ExtWritePull

Spec == Init /\ [][Next]_vars

\* ------------------------------------------------------------ the codec alone

\* The values of a u8.
U8 == 0..255

\* A client that holds no handle and only converts functions and bit patterns.
InitCodec ==
  /\ regs = [a \in RegAddrs |-> {}]
  /\ cfg = GpioConfig_new
  /\ pud = GpioPullConfig_new
  /\ pc = "codec"
  /\ prog = <<>>
  /\ ip = 1
  /\ half = "load"
  /\ tmp = {}
  /\ log = <<>>
  /\ regs0 = regs
  /\ calls = 0
  /\ lastCall = None
  /\ snap = None
  /\ ret = None
  /\ extLeft = 0
  /\ extMods = {}
  /\ extPull = FALSE
  /\ cli = None

\* A finished conversion: its argument, its result, and the argument of the
\* conversion that produced its argument, if any.
Conversion(arg, result, origin) ==
  [arg |-> arg, result |-> result, origin |-> origin]

\* function.to_bits(), on any function or on the function just decoded.
Call_to_bits ==
  \E f \in PinFunction :
    /\ \/ pc = "codec"
       \/ pc = "decoded" /\ ret[1].origin = None /\ ret[1].result = f
    /\ pc' = "encoded"
    /\ ret' = Some(Conversion(f, to_bits(f),
                              IF pc = "codec" THEN None ELSE Some(ret[1].arg)))
    /\ UNCHANGED <<regs, cfg, pud, prog, ip, half, tmp, log, regs0, calls,
                   lastCall, snap, extLeft, extMods, extPull, cli>>

\* PinFunction::try_from_bits(bits), on any u8 or on the bits just encoded.
Call_try_from_bits ==
  \E bits \in U8 :
    /\ \/ pc = "codec"
       \/ pc = "encoded" /\ ret[1].origin = None /\ ret[1].result = bits
    /\ pc' = "decoded"
    /\ ret' = Some(Conversion(bits, try_from_bits(bits),
                              IF pc = "codec" THEN None ELSE Some(ret[1].arg)))
    /\ UNCHANGED <<regs, cfg, pud, prog, ip, half, tmp, log, regs0, calls,
                   lastCall, snap, extLeft, extMods, extPull, cli>>

NextCodec ==
  \/ Call_to_bits
  \/ Call_try_from_bits

SpecCodec == InitCodec /\ [][NextCodec]_vars

\* ------------------------------------------------------------ decoding alone

\* The registers the decoders read.
DecodedRegs ==
  {GPFSEL0, GPFSEL1, GPFSEL2, GPFSEL3, GPFSEL4, GPFSEL5, GPLEV0, GPLEV1,
   GPEDS0, GPEDS1, GPREN0, GPREN1, GPFEN0, GPFEN1, GPHEN0, GPHEN1, GPLEN0,
   GPLEN1, GPAREN0, GPAREN1, GPAFEN0, GPAFEN1}

\* Control blocks to decode: the patterns of InitWords in every word, a block
\* whose words differ from each other, and every block with a single bit set
\* in a register the decoders read. The pull registers rest at 0.
SyntheticBlocks ==
  {[a \in RegAddrs |-> IF a \in {GPPUD, GPPUDCLK0, GPPUDCLK1} THEN {} ELSE w] :
     w \in InitWords}
  \cup {[a \in RegAddrs |->
           IF a \in {GPPUD, GPPUDCLK0, GPPUDCLK1} THEN {}
           ELSE {i \in AllOnes : (i * (1 + (a \div 4))) % 7 \in {0, 3, 5}}]}
  \cup {[a \in RegAddrs |-> IF a = r THEN {i} ELSE {}] :
          r \in DecodedRegs, i \in AllOnes}

\* A client that holds a handle on a control block and has just read it.
InitDecode ==
  /\ regs \in SyntheticBlocks
  /\ cfg = GpioConfig_new
  /\ pud = GpioPullConfig_new
  /\ pc = "read"
  /\ prog = <<>>
  /\ ip = 1
  /\ half = "load"
  /\ tmp = {}
  /\ log = <<>>
  /\ regs0 = regs
  /\ calls = 0
  /\ lastCall = None
  /\ snap = read_all(regs)
  /\ ret = None
  /\ extLeft = 0
  /\ extMods = {}
  /\ extPull = FALSE
  /\ cli = None

\* GpioState::pins: (0..53).map(|i| self.pin(i)).collect(); the range 0..53
\* of the code excludes its upper end.
pins(data) == [i \in 1..53 |-> pin(data, i - 1)]

\* state.pins() on the snapshot.
CallPins ==
  /\ pc = "read"
  /\ pc' = "listed"
  /\ ret' = Some(pins(snap))
  /\ lastCall' = None
  /\ UNCHANGED <<regs, cfg, pud, prog, ip, half, tmp, log, regs0, calls,
                 snap, extLeft, extMods, extPull, cli>>

NextDecode ==
  \/ DecodePin
  \/ read_level
  \/ Rpio_set_level
  \/ CallPins

SpecDecode == InitDecode /\ [][NextDecode]_vars

\* ------------------------------------------------------------ the rpi-gpio tool

\* PinCommand::new(index): no option given.
PinCommand_new(index) ==
  [index |-> index, set_level |-> None, set_function |-> None,
   set_pull_mode |-> None, set_detect_rise |-> None, set_detect_fall |-> None,
   set_detect_high |-> None, set_detect_low |-> None,
   set_detect_async_rise |-> None, set_detect_async_fall |-> None]

\* One option of a pin command that needs --unsafe: check_unsafe(name)? and
\* then the setter; acc is what config_from_commands holds so far.
SetUnsafe(acc, value, name, field, index, allow_unsafe) ==
  IF acc.err # None \/ value = None THEN acc
  ELSE IF ~allow_unsafe THEN [acc EXCEPT !.err = Some(name)]
  ELSE IF field = "pull_mode"
       THEN [acc EXCEPT !.pud = Store(@, index, value[1])]
       ELSE [acc EXCEPT !.gpio[field] = Store(@, index, value[1])]

\* One option of a pin command that needs no flag.
SetSafe(acc, value, field, index) ==
  IF acc.err # None \/ value = None THEN acc
  ELSE [acc EXCEPT !.gpio[field] = Store(@, index, value[1])]

\* The body of the loop of config_from_commands for one command.
ConfigureCommand(acc, command, allow_unsafe) ==
  LET i == command.index
      a1 == SetSafe(acc, command.set_level, "level", i)
      a2 == SetSafe(a1, command.set_function, "function", i)
      a3 == SetUnsafe(a2, command.set_pull_mode, "pull-mode", "pull_mode", i,
                      allow_unsafe)
      a4 == SetUnsafe(a3, command.set_detect_rise, "detect-rise",
                      "detect_rise", i, allow_unsafe)
      a5 == SetUnsafe(a4, command.set_detect_fall, "detect-fall",
                      "detect_fall", i, allow_unsafe)
      a6 == SetUnsafe(a5, command.set_detect_high, "detect-high",
                      "detect_high", i, allow_unsafe)
      a7 == SetUnsafe(a6, command.set_detect_low, "detect-low",
                      "detect_low", i, allow_unsafe)
      a8 == SetUnsafe(a7, command.set_detect_async_rise, "detect-async-rise",
                      "detect_async_rise", i, allow_unsafe)
  IN  SetUnsafe(a8, command.set_detect_async_fall, "detect-async-fall",
                "detect_async_fall", i, allow_unsafe)

\* config_from_commands that never asks for --unsafe.
config_from_commands_unchecked(commands, allow_unsafe) ==
  LET loop[n \in 0..Len(commands)] ==
        IF n = 0
        THEN [err |-> None, gpio |-> GpioConfig_new, pud |-> GpioPullConfig_new]
        ELSE ConfigureCommand(loop[n - 1], commands[n], TRUE)
  IN  loop[Len(commands)]

\* config_from_commands: err is Some(name) for Err("trying to set unsafe pin
\* option `name` without --unsafe"), and None for Ok((gpio, pud)).
config_from_commands(commands, allow_unsafe) ==
  LET loop[n \in 0..Len(commands)] ==
        IF n = 0
        THEN [err |-> None, gpio |-> GpioConfig_new, pud |-> GpioPullConfig_new]
        ELSE ConfigureCommand(loop[n - 1], commands[n], allow_unsafe)
  IN  loop[Len(commands)]

\* EXPECTED of check_bcm283x_gpio: the bytes of "brcm,bcm2835-gpio".
EXPECTED ==
  <<98, 114, 99, 109, 44, 98, 99, 109, 50, 56, 51, 53, 45, 103, 112, 105, 111>>

\* check_bcm283x_gpio on the content of the compatible file (None: the file
\* cannot be opened or read). data[data.len() - 1] on empty data panics: the
\* subtraction overflows, or wraps and the index is out of bounds.
check_bcm283x_gpio(file) ==
  IF file = None THEN "IoErr"
  ELSE LET data == file[1]
       IN  IF Len(data) = 0 THEN "panic"
           ELSE LET popped == IF data[Len(data)] = 0
                              THEN SubSeq(data, 1, Len(data) - 1)
                              ELSE data
                IN  IF popped = EXPECTED THEN "Ok" ELSE "Err"

\* The --set-pin options of an invocation, after parsing.
CommandLists ==
  { <<>>,
    <<[PinCommand_new(5) EXCEPT !.set_function = Some("Output")]>>,
    <<[PinCommand_new(53) EXCEPT !.set_level = Some(TRUE),
                                 !.set_function = Some("Alt0")]>>,
    <<[PinCommand_new(5) EXCEPT !.set_function = Some("Output"),
                                !.set_pull_mode = Some("PullUp")]>>,
    <<[PinCommand_new(5) EXCEPT !.set_function = Some("Output")],
      [PinCommand_new(33) EXCEPT !.set_detect_rise = Some(TRUE)]>>,
    <<[PinCommand_new(40) EXCEPT !.set_level = Some(FALSE),
                                 !.set_detect_async_fall = Some(FALSE)]>> }

\* What /proc/device-tree/soc/gpio@7e200000/compatible holds: nothing, the
\* expected string with and without its NUL, with two NULs, with a newline,
\* a lone NUL, another peripheral, a list of two strings; or no such file.
CompatibleFiles ==
  { None,
    Some(<<>>),
    Some(EXPECTED),
    Some(EXPECTED \o <<0>>),
    Some(EXPECTED \o <<0, 0>>),
    Some(EXPECTED \o <<10>>),
    Some(<<0>>),
    Some([EXPECTED EXCEPT ![12] = 54] \o <<0>>),
    Some(EXPECTED \o <<0>> \o EXPECTED \o <<0>>) }

\* The tool is started: Options::from_args has parsed the command line.
InitCli ==
  /\ \E w \in InitWords :
       regs = [a \in RegAddrs |->
                 IF a \in {GPPUD, GPPUDCLK0, GPPUDCLK1} THEN {} ELSE w]
  /\ cfg = GpioConfig_new
  /\ pud = GpioPullConfig_new
  /\ pc = "main"
  /\ prog = <<>>
  /\ ip = 1
  /\ half = "load"
  /\ tmp = {}
  /\ log = <<>>
  /\ regs0 = regs
  /\ calls = 0
  /\ lastCall = None
  /\ snap = None
  /\ ret = None
  /\ extLeft = 0
  /\ extMods = {}
  /\ extPull = FALSE
  /\ \E u \in BOOLEAN, n \in BOOLEAN, c \in CommandLists,
        f \in CompatibleFiles :
       cli = Some([allow_unsafe |-> u, no_verify_cpu |-> n, pins |-> c,
                   compatible |-> f, events |-> <<>>])

\* cli with one more event.
Event(e) == Some([cli[1] EXCEPT !.events = Append(@, e)])

\* main, lines 84-90: the batches are built, or the tool exits with status 1.
main_config ==
  LET r == config_from_commands(cli[1].pins, cli[1].allow_unsafe)
  IN  /\ pc = "main"
      /\ cli' = Event("config_from_commands")
      /\ IF r.err # None
         THEN /\ pc' = "exit"
              /\ UNCHANGED <<cfg, pud>>
         ELSE /\ pc' = "verify"
              /\ cfg' = r.gpio
              /\ pud' = r.pud
      /\ UNCHANGED <<regs, prog, ip, half, tmp, log, regs0, calls, lastCall,
                     snap, ret, extLeft, extMods, extPull>>

\* main_verify that goes on whatever the check says.
main_verify_ignored ==
  /\ pc = "verify"
  /\ pc' = "map"
  /\ cli' = IF cli[1].no_verify_cpu THEN cli ELSE Event("check_bcm283x_gpio")
  /\ UNCHANGED <<regs, cfg, pud, prog, ip, half, tmp, log, regs0, calls,
                 lastCall, snap, ret, extLeft, extMods, extPull>>

\* main, lines 92-100: the platform check, unless --no-verify-cpu.
main_verify ==
  /\ pc = "verify"
  /\ IF cli[1].no_verify_cpu
     THEN /\ pc' = "map"
          /\ cli' = cli
     ELSE /\ cli' = Event("check_bcm283x_gpio")
          /\ pc' = CASE check_bcm283x_gpio(cli[1].compatible) = "Ok" -> "map"
                     [] check_bcm283x_gpio(cli[1].compatible) = "panic" ->
                          "panicked"
                     [] OTHER -> "exit"
  /\ UNCHANGED <<regs, cfg, pud, prog, ip, half, tmp, log, regs0, calls,
                 lastCall, snap, ret, extLeft, extMods, extPull>>

\* main, lines 102-111: Gpio::new maps the control block, or fails and the
\* tool exits with status 1.
main_map ==
  \E ok \in BOOLEAN :
    /\ pc = "map"
    /\ cli' = Event("Rpio::new")
    /\ pc' = IF ok THEN "mapped" ELSE "exit"
    /\ regs0' = regs
    /\ UNCHANGED <<regs, cfg, pud, prog, ip, half, tmp, log, calls, lastCall,
                   snap, ret, extLeft, extMods, extPull>>

\* main, lines 118-123: with pin commands gpio_config.apply is entered,
\* without any both applies are skipped.
main_apply ==
  /\ pc = "mapped"
  /\ IF cli[1].pins # <<>>
     THEN /\ pc' = "cfg"
          /\ prog' = GpioConfig_apply(cfg)
     ELSE /\ pc' = "pull_done"
          /\ prog' = prog
  /\ ip' = 1
  /\ log' = <<>>
  /\ regs0' = regs
  /\ UNCHANGED <<regs, cfg, pud, half, tmp, calls, lastCall, snap, ret,
                 extLeft, extMods, extPull, cli>>

\* A run of the tool, with no other actor.
NextCli ==
  \/ main_config
  \/ main_verify
  \/ main_map
  \/ main_apply
  \/ RegisterLoad
  \/ RegisterStore
  \/ write_register
  \/ wait_cycles
  \/ ApplyReturn
  \/ CallPullApply
  \/ ReadAll
  \/ CallPins

SpecCli == InitCli /\ [][NextCli]_vars


\* ------------------------------------------------------------ properties
\* What the specification says of a batch, stated on the batch itself.

\* The 3-bit function codes of the specification's data model.
FunctionCode ==
  [Input |-> 0, Output |-> 1, Alt0 |-> 4, Alt1 |-> 5, Alt2 |-> 6, Alt3 |-> 7,
   Alt4 |-> 3, Alt5 |-> 2]

\* The bank-0 register of each detect flag; bank 1 is the next word.
DetectBase ==
  [detect_rise |-> GPREN0, detect_fall |-> GPFEN0, detect_high |-> GPHEN0,
   detect_low |-> GPLEN0, detect_async_rise |-> GPAREN0,
   detect_async_fall |-> GPAFEN0]

DetectNames == DOMAIN DetectBase

FselRegs == {GPFSEL0, GPFSEL1, GPFSEL2, GPFSEL3, GPFSEL4, GPFSEL5}

DetectRegs == {DetectBase[f] + 4 * b : f \in DetectNames, b \in 0..1}

\* The 18 registers GpioConfig::apply works on.
ConfigRegs == FselRegs \cup DetectRegs

LevelRegs == {GPSET0, GPSET1, GPCLR0, GPCLR1, GPLEV0, GPLEV1}

\* The bits of the field of pin p in its function-select register.
FieldBits(p) == {3 * (p % 10) + j : j \in 0..2}

\* The bits of register r that belong to a (pin, attribute) pair with a
\* pending change in the batch c.
Owned(c, r) ==
  IF r \in FselRegs
  THEN UNION {FieldBits(p) : p \in {q \in DOMAIN c.function : q \div 10 = r \div 4}}
  ELSE IF r \in DetectRegs
  THEN UNION {{p % 32 : p \in {q \in DOMAIN c[f] : DetectBase[f] + 4 * (q \div 32) = r}} :
                f \in DetectNames}
  ELSE IF r \in LevelRegs
  THEN {p % 32 : p \in {q \in DOMAIN c.level :
                          r \in {GPSET0 + 4 * (q \div 32), GPCLR0 + 4 * (q \div 32),
                                 GPLEV0 + 4 * (q \div 32)}}}
  ELSE {}

\* The bits of register r the batch c wants set.
Wanted(c, r) ==
  IF r \in FselRegs
  THEN UNION {{3 * (p % 10) + j : j \in Bits(FunctionCode[c.function[p]])} :
                p \in {q \in DOMAIN c.function : q \div 10 = r \div 4}}
  ELSE UNION {{p % 32 : p \in {q \in DOMAIN c[f] :
                                 c[f][q] /\ DetectBase[f] + 4 * (q \div 32) = r}} :
                f \in DetectNames}

\* The batch c has no entry at all.
AllNone(c) == \A f \in DOMAIN c : DOMAIN c[f] = {}

\* The operations of the log on register r, in order.
OpsOn(r) == SelectSeq(log, LAMBDA o : o.op # "wait" /\ o.reg = r)

\* C1: after GpioConfig::apply, with no other actor writing, every register
\* bit that belongs to no (pin, attribute) pair with a pending change has the
\* value it had before apply: other pins of the same register, the registers
\* of other attribute families and the bits of no pin.
C1_Frame ==
  pc = "cfg_done" =>
    \A r \in RegAddrs : regs[r] \ Owned(cfg, r) = regs0[r] \ Owned(cfg, r)

\* C1 witness: the batch that enables detect_rise on pins 0 and 33 only was
\* applied to a block of all-zero words: bit 0 of GPREN0 and bit 1 of GPREN1
\* are set and the fall-detect bank is as before.
C1_Witness ==
  /\ pc = "cfg_done"
  /\ DOMAIN cfg.detect_rise = {0, 33}
  /\ \A f \in DOMAIN cfg : f # "detect_rise" => DOMAIN cfg[f] = {}
  /\ regs0[GPREN0] = {}
  /\ regs[GPREN0] = {0}
  /\ regs[GPREN1] = {1}
  /\ regs[GPFEN0] = regs0[GPFEN0]

\* C2 (as claimed): an external change of other bits made while
\* GpioConfig::apply runs is still in the register when apply has finished,
\* and the bits of the batch hold the requested values.
C2_NoLostUpdate ==
  pc = "cfg_done" =>
    /\ \A m \in extMods : (m[2] \in regs[m[1]]) = m[3]
    /\ \A r \in ConfigRegs : regs[r] \cap Owned(cfg, r) = Wanted(cfg, r)

C5_LevelDriven ==
  pc = "cfg_done" =>
    \A b \in 0..1 :
      LET raise == {p % 32 : p \in {q \in DOMAIN cfg.level : cfg.level[q] /\ q \div 32 = b}}
          lower == {p % 32 : p \in {q \in DOMAIN cfg.level : ~cfg.level[q] /\ q \div 32 = b}}
      IN  /\ OpsOn(GPSET0 + 4 * b) =
               IF raise # {} THEN <<Op("write", GPSET0 + 4 * b, raise)>> ELSE <<>>
          /\ OpsOn(GPCLR0 + 4 * b) =
               IF lower # {} THEN <<Op("write", GPCLR0 + 4 * b, lower)>> ELSE <<>>


\* C6: with no other actor writing, a snapshot read after GpioConfig::apply
\* decodes, for every pin, the function and each detect flag the batch holds
\* for it; and the batch that sets only pin 5 to Output, applied to an
\* all-zero block, changes only GPFSEL0, whose bits 15..17 then hold 001.
C6_RoundTrip ==
  /\ pc = "read" =>
       \A p \in Pins :
         /\ p \in DOMAIN cfg.function => pin_function(snap, p) = cfg.function[p]
         /\ \A f \in DetectNames :
              p \in DOMAIN cfg[f] => pin(snap, p)[f] = cfg[f][p]
  /\ ( /\ pc = "cfg_done"
       /\ DOMAIN cfg.function = {5}
       /\ cfg.function[5] = "Output"
       /\ \A f \in DetectNames : DOMAIN cfg[f] = {}
       /\ \A r \in RegAddrs : regs0[r] = {} )
     => regs = [regs0 EXCEPT ![GPFSEL0] = {15}]

\* C6 witness: a snapshot read after a batch with function Alt5 on pin 9 and
\* fall detect on pin 40 was applied decodes both, from a block that held
\* other values for them.
C6_Witness ==
  /\ pc = "read"
  /\ At(cfg.function, 9) = Some("Alt5")
  /\ At(cfg.detect_fall, 40) = Some(TRUE)
  /\ pin_function(snap, 9) = "Alt5"
  /\ pin_detect_fall(snap, 40)
  /\ pin_function(snap, 7) = "Input"
  /\ ~pin_detect_fall(snap, 39)

\* The 2-bit pull codes of the specification's data model.
PullCode == [Float |-> 0, PullDown |-> 1, PullUp |-> 2]

\* The pull-clock register of a bank.
ClkReg(b) == GPPUDCLK0 + 4 * b

\* The clock mask of mode m in bank b: the pins the batch holds Some(m) for.
PullMask(m, b) == {p % 32 : p \in {q \in DOMAIN pud : pud[q] = m /\ q \div 32 = b}}

\* The modes at least one pin requests.
Requested == {pud[p] : p \in DOMAIN pud}

\* The strobe of mode m: clocks := 0, GPPUD := code, wait, clocks := masks,
\* wait, clocks := 0, GPPUD := 0.
Strobe(m) ==
  <<Op("write", GPPUDCLK0, {}),
    Op("write", GPPUDCLK1, {}),
    Op("write", GPPUD, Bits(PullCode[m])),
    WaitOp,
    Op("write", GPPUDCLK0, PullMask(m, 0)),
    Op("write", GPPUDCLK1, PullMask(m, 1)),
    WaitOp,
    Op("write", GPPUDCLK0, {}),
    Op("write", GPPUDCLK1, {}),
    Op("write", GPPUD, {})>>

\* The c-th run of ten entries of the log, c from 0.
Chunk(c) == SubSeq(log, 10 * c + 1, 10 * c + 10)

\* C7: with no other actor writing, GpioPullConfig::apply issues, for every
\* mode it strobes, the writes in the order clocks := 0, GPPUD := code, wait,
\* clocks := masks, wait, clocks := 0, GPPUD := 0; whenever a pull-clock bit
\* is set during apply, its pin requests the mode whose code GPPUD holds and
\* the register holds exactly that mode's mask; when apply has returned,
\* GPPUD and both pull-clock registers are 0.
C7_StrobeOrder ==
  /\ pc \in {"pull", "pull_done"} =>
       \A b \in 0..1 :
         regs[ClkReg(b)] # {} =>
           \E m \in Requested :
             /\ regs[GPPUD] = Bits(PullCode[m])
             /\ regs[ClkReg(b)] = PullMask(m, b)
  /\ pc = "pull_done" =>
       /\ regs[GPPUD] = {} /\ regs[GPPUDCLK0] = {} /\ regs[GPPUDCLK1] = {}
       /\ Len(log) % 10 = 0
       /\ \A c \in 0..((Len(log) \div 10) - 1) :
            \E m \in Requested : Chunk(c) = Strobe(m)

\* C7 witness: during apply the clock of pin 40 is raised while GPPUD holds
\* the PullDown code.
C7_Witness ==
  /\ pc = "pull"
  /\ At(pud, 40) = Some("PullDown")
  /\ regs[GPPUDCLK1] = {8}
  /\ regs[GPPUD] = Bits(1)

\* C8: with no other actor writing, GpioPullConfig::apply runs exactly one
\* strobe for each mode a pin requests and none for the others (no write
\* at all for the empty batch); the masks of the strobe of mode m have bit
\* p % 32 of bank p / 32 set exactly for the pins p with Some(m), and the
\* codes are Float 00, PullDown 01, PullUp 10.  For {2: PullUp,
\* 40: PullDown}: PullUp with bit 2 of bank 0, then PullDown with bit 8 of
\* bank 1.
C8_OneStrobePerMode ==
  pc = "pull_done" =>
    /\ Len(log) = 10 * Cardinality(Requested)
    /\ \A m \in PullMode :
         Cardinality({c \in 0..((Len(log) \div 10) - 1) : Chunk(c) = Strobe(m)})
           = IF m \in Requested THEN 1 ELSE 0
    /\ (DOMAIN pud = {2, 40} /\ pud[2] = "PullUp" /\ pud[40] = "PullDown") =>
         log = <<Op("write", GPPUDCLK0, {}), Op("write", GPPUDCLK1, {}),
                 Op("write", GPPUD, {1}), WaitOp,
                 Op("write", GPPUDCLK0, {2}), Op("write", GPPUDCLK1, {}),
                 WaitOp,
                 Op("write", GPPUDCLK0, {}), Op("write", GPPUDCLK1, {}),
                 Op("write", GPPUD, {}),
                 Op("write", GPPUDCLK0, {}), Op("write", GPPUDCLK1, {}),
                 Op("write", GPPUD, {0}), WaitOp,
                 Op("write", GPPUDCLK0, {}), Op("write", GPPUDCLK1, {8}),
                 WaitOp,
                 Op("write", GPPUDCLK0, {}), Op("write", GPPUDCLK1, {}),
                 Op("write", GPPUD, {})>>

\* C8 witness: apply has returned for the batch {2: PullUp, 40: PullDown}.
C8_Witness ==
  /\ pc = "pull_done"
  /\ DOMAIN pud = {2, 40}
  /\ pud[2] = "PullUp"
  /\ pud[40] = "PullDown"
  /\ Len(log) = 20

\* A pin of the batch is clocked while GPPUD holds the code of another mode
\* than the one the batch requests for it.
WrongPull ==
  /\ pc \in {"pull", "pull_done"}
  /\ \E p \in DOMAIN pud :
       /\ (p % 32) \in regs[ClkReg(p \div 32)]
       /\ regs[GPPUD] # Bits(PullCode[pud[p]])

\* C9: GpioPullConfig::apply is not atomic: another actor's write of a pull
\* register between the steps of a strobe makes a pin be clocked under the
\* wrong code (the witness below is such an interleaving), and no pin is
\* clocked under a wrong code unless such a write happened.
C9_WrongPullOnlyByRace == WrongPull => extPull

\* C9 witness: the batch requests PullDown for pin 40; the other actor wrote
\* the PullUp code to GPPUD after apply wrote 01, and apply then raised the
\* clock of pin 40.
C9_Witness ==
  /\ WrongPull
  /\ pc = "pull"
  /\ At(pud, 40) = Some("PullDown")
  /\ regs[GPPUDCLK1] = {8}
  /\ regs[GPPUD] = Bits(2)
  /\ log[Len(log)] = Op("write", GPPUDCLK1, {8})

\* A step that is a call taking a pin index.
IndexedCall ==
  /\ lastCall' # None
  /\ calls' = calls + 1 \/ (pc = "read" /\ pc' # "read")

\* C10 (as claimed): every operation that takes a pin index accepts 53 and
\* panics on 54 without a register write and without a change of a batch.
C10_IndexChecked ==
  [][IndexedCall =>
       /\ lastCall'[1][2] = 53 => pc' # "panicked"
       /\ lastCall'[1][2] = 54 =>
            /\ pc' = "panicked"
            /\ regs' = regs
            /\ log' = log
            /\ cfg' = cfg
            /\ pud' = pud]_vars

\* C11: to_bits and try_from_bits are exact inverses: decoding the code of a
\* function gives the function back, every three-bit pattern decodes to a
\* function whose code is the pattern, the codes are those of the table, and
\* a value above 0b111 decodes to an error.
C11_ExactInverses ==
  /\ pc = "encoded" =>
       /\ ret[1].result = FunctionCode[ret[1].arg]
       /\ ret[1].origin # None => ret[1].result = ret[1].origin[1]
  /\ pc = "decoded" =>
       /\ ret[1].arg <= 7 => ret[1].result \in PinFunction
       /\ ret[1].arg > 7 => ret[1].result = "Err"
       /\ ret[1].origin # None => ret[1].result = ret[1].origin[1]

\* C11 witness: Alt4 was encoded as 011 and 011 was decoded to Alt4.
C11_Witness ==
  /\ pc = "decoded"
  /\ ret[1] = Conversion(3, "Alt4", Some("Alt4"))

\* Reference extraction of the bit of pin p in the register pair at base.
RefBit(data, base, p) == (p % 32) \in data[(base \div 4) + (p \div 32)]

\* Reference extraction of the function of pin p: the three bits of its field
\* in word p / 10, looked up in the code table.
RefFunction(data, p) ==
  LET word == data[p \div 10]
      bit(j) == IF (3 * (p % 10) + j) \in word THEN 1 ELSE 0
      code == bit(0) + 2 * bit(1) + 4 * bit(2)
  IN  CHOOSE f \in PinFunction : FunctionCode[f] = code

RefPin(data, p) ==
  [function |-> RefFunction(data, p),
   level |-> RefBit(data, GPLEV0, p),
   event |-> RefBit(data, GPEDS0, p),
   detect_rise |-> RefBit(data, GPREN0, p),
   detect_fall |-> RefBit(data, GPFEN0, p),
   detect_high |-> RefBit(data, GPHEN0, p),
   detect_low |-> RefBit(data, GPLEN0, p),
   detect_async_rise |-> RefBit(data, GPAREN0, p),
   detect_async_fall |-> RefBit(data, GPAFEN0, p)]

\* C12: what the decoders return for a pin in 0..53 is the reference bit
\* extraction (word[base + p/32] >> (p%32)) & 1 for each of the eight boolean
\* attributes and the code table applied to the field of the pin in word
\* p/10 for the function: for the pin just decoded by pin(index), for every
\* entry of pins(), and for every pin of the snapshot held.
C12_DecodeIsBitExtraction ==
  /\ (pc = "done" /\ lastCall[1][1] = "pin") =>
       ret = Some(RefPin(snap, lastCall[1][2]))
  /\ pc = "listed" =>
       \A i \in DOMAIN ret[1] : ret[1][i] = RefPin(snap, i - 1)
  /\ snap # None =>
       \A p \in Pins :
         /\ pin_function(snap, p) = RefFunction(snap, p)
         /\ pin_level(snap, p) = RefBit(snap, GPLEV0, p)
         /\ pin_event(snap, p) = RefBit(snap, GPEDS0, p)
         /\ pin_detect_rise(snap, p) = RefBit(snap, GPREN0, p)
         /\ pin_detect_fall(snap, p) = RefBit(snap, GPFEN0, p)
         /\ pin_detect_high(snap, p) = RefBit(snap, GPHEN0, p)
         /\ pin_detect_low(snap, p) = RefBit(snap, GPLEN0, p)
         /\ pin_detect_async_rise(snap, p) = RefBit(snap, GPAREN0, p)
         /\ pin_detect_async_fall(snap, p) = RefBit(snap, GPAFEN0, p)

\* C12 witness: in a block whose only set bit is bit 21 of GPAFEN1, pin 53 was
\* decoded with detect_async_fall on and everything else off.
C12_Witness ==
  /\ pc = "done"
  /\ lastCall = Some(<<"pin", 53>>)
  /\ snap[GPAFEN1 \div 4] = {21}
  /\ ret[1].detect_async_fall
  /\ ~ret[1].detect_async_rise
  /\ ~ret[1].level
  /\ ret[1].function = "Input"

\* C13 (as claimed): pins() has 54 entries, entry i is pin(i) for every i in
\* 0..53, so pin 53 is included.
C13_AllPinsListed ==
  pc = "listed" =>
    /\ Len(ret[1]) = 54
    /\ \A i \in 0..53 : ret[1][i + 1] = pin(snap, i)

\* The tool has passed the step named e.
Happened(e) == \E i \in DOMAIN cli[1].events : cli[1].events[i] = e

\* The tool has issued no register read or write.
NoRegisterAccess == log = <<>> /\ prog = <<>> /\ snap = None /\ regs = regs0

PullRegs == {GPPUD, GPPUDCLK0, GPPUDCLK1}

\* C14: the platform check comes before the mapping: the mapping is attempted
\* with the check enabled only after the check succeeded; when the enabled
\* check fails the tool ends without attempting the mapping and without a
\* register read or write; with --no-verify-cpu the check is never made and,
\* the pin commands being accepted, the mapping is attempted.
C14_CheckBeforeMapping ==
  LET o == cli[1]
      checked == check_bcm283x_gpio(o.compatible)
      accepted == config_from_commands(o.pins, o.allow_unsafe).err = None
  IN  /\ (Happened("Rpio::new") /\ ~o.no_verify_cpu) =>
           /\ checked = "Ok"
           /\ \E i, j \in DOMAIN o.events :
                /\ i < j
                /\ o.events[i] = "check_bcm283x_gpio"
                /\ o.events[j] = "Rpio::new"
      /\ (Happened("check_bcm283x_gpio") /\ checked # "Ok") =>
           /\ pc \in {"exit", "panicked"}
           /\ ~Happened("Rpio::new")
      /\ ~Happened("Rpio::new") => NoRegisterAccess
      /\ o.no_verify_cpu => ~Happened("check_bcm283x_gpio")
      /\ (o.no_verify_cpu /\ accepted /\ pc \notin {"main", "verify", "map"})
           => Happened("Rpio::new")

\* C14 witness: the check was enabled and found another peripheral; the tool
\* exited after the check.
C14_Witness ==
  /\ pc = "exit"
  /\ ~cli[1].no_verify_cpu
  /\ cli[1].compatible = Some([EXPECTED EXCEPT ![12] = 54] \o <<0>>)
  /\ cli[1].events = <<"config_from_commands", "check_bcm283x_gpio">>
  /\ NoRegisterAccess

\* The command carries a pull mode or one of the six detect flags.
CarriesUnsafe(command) ==
  \/ command.set_pull_mode # None
  \/ command.set_detect_rise # None
  \/ command.set_detect_fall # None
  \/ command.set_detect_high # None
  \/ command.set_detect_low # None
  \/ command.set_detect_async_rise # None
  \/ command.set_detect_async_fall # None

C15_State ==
  LET o == cli[1]
      unsafe == \E i \in DOMAIN o.pins : CarriesUnsafe(o.pins[i])
  IN  /\ (~o.allow_unsafe /\ unsafe) =>
           /\ pc \in {"main", "exit"}
           /\ ~Happened("Rpio::new")
           /\ NoRegisterAccess
           /\ pc = "exit" => o.events = <<"config_from_commands">>
      /\ (~unsafe /\ Happened("config_from_commands")) =>
           (pc = "exit" => o.events # <<"config_from_commands">>)

C15_Step ==
  ~cli[1].allow_unsafe => \A r \in DetectRegs \cup PullRegs : regs'[r] = regs[r]

\* C15: without --unsafe a run of the tool never changes a pull register or
\* an event detect register; if a pin command carries a pull mode or a detect
\* flag, config_from_commands fails and the tool exits before the mapping and
\* without a register operation, whatever else the commands carry; commands
\* with level and function options only are accepted without --unsafe.
C15_UnsafeGated == [](C15_State) /\ [][C15_Step]_vars

\* C15 witness: function=output and pull=up for pin 5 without --unsafe: the
\* tool exited right after config_from_commands.
C15_Witness ==
  /\ pc = "exit"
  /\ ~cli[1].allow_unsafe
  /\ cli[1].pins[1].set_function = Some("Output")
  /\ cli[1].pins[1].set_pull_mode = Some("PullUp")
  /\ cli[1].events = <<"config_from_commands">>
  /\ NoRegisterAccess

\* The content without one trailing NUL byte, if it has one.
WithoutTrailingNul(data) ==
  IF Len(data) > 0 /\ data[Len(data)] = 0
  THEN SubSeq(data, 1, Len(data) - 1)
  ELSE data

\* C17 (as claimed): for every content of the compatible file, the empty one
\* included, check_bcm283x_gpio returns: success exactly when the content
\* without at most one trailing NUL is "brcm,bcm2835-gpio", a mismatch error
\* otherwise; it never aborts.
C17_AlwaysReturns ==
  LET o == cli[1]
  IN  (Happened("check_bcm283x_gpio") /\ o.compatible # None) =>
        /\ pc # "panicked"
        /\ check_bcm283x_gpio(o.compatible) \in {"Ok", "Err"}
        /\ check_bcm283x_gpio(o.compatible) = "Ok"
             <=> WithoutTrailingNul(o.compatible[1]) = EXPECTED

\* The function field of pin p in the control block r, as a set of bits.
Field(r, p) == {j \in 0..2 : (3 * (p % 10) + j) \in r[fsel(p \div 10)]}

\* C16: while GpioConfig::apply runs with no other actor, the function field
\* of a pin with a pending change holds its previous code, 000, or a code
\* whose bits are among those of the requested code; it is 000 between the
\* AND and the OR of its register and the requested code from the OR on and
\* when apply has returned; the field of a pin with no pending change holds
\* its original code throughout.
C16_TransientFunction ==
  pc \in {"cfg", "cfg_done"} =>
    \A p \in Pins :
      LET now == Field(regs, p)
          before == Field(regs0, p)
          issued == ip - 1
          and_i == 2 * (p \div 10) + 1
      IN  IF p \in DOMAIN cfg.function
          THEN LET want == Bits(FunctionCode[cfg.function[p]])
               IN  /\ now = before \/ now = {} \/ now \subseteq want
                   /\ issued < and_i => now = before
                   /\ issued = and_i => now = {}
                   /\ issued > and_i => now = want
                   /\ pc = "cfg_done" => now = want
          ELSE now = before

\* C16 witness: pin 5 goes from Alt3 (111) to Output; the AND of GPFSEL0 is
\* done and its OR is not: pin 5 reads as Input while pin 4 still holds 111.
C16_Witness ==
  /\ pc = "cfg"
  /\ At(cfg.function, 5) = Some("Output")
  /\ Field(regs0, 5) = {0, 1, 2}
  /\ ip = 2
  /\ half = "load"
  /\ Field(regs, 5) = {}
  /\ Field(regs, 4) = {0, 1, 2}

====
